---- MODULE Spec2Model ----
(***************************************************************************)
(* Model of src/main.py: a FastAPI service that validates a batch of JSON  *)
(* records, flattens it with pandas.json_normalize, renames the columns,   *)
(* loads the table into an in-memory SQLite database, runs one SQL query   *)
(* and (optionally) unflattens the result rows.                            *)
(*                                                                         *)
(* Python strings are sequences of one-character strings, so that          *)
(* str.replace, str.split and the f-strings of the code are computed       *)
(* character by character.  A Python value is a record                     *)
(*     [kind, n, s, kids]                                                  *)
(* kind = "None" | "int" | "float" | "nan" | "str" | "dict" | "list";      *)
(* n is the number of an int or of a float (n.0), s the characters of a    *)
(* str, kids the items of a dict in insertion order (a sequence of         *)
(* [key, val]).  The elements of a list are never read by the code.        *)
(***************************************************************************)
EXTENDS Integers, Sequences, FiniteSets, TLC

\* ---------------------------------------------------------------- values

NoneV == [kind |-> "None", n |-> 0, s |-> <<>>, kids |-> <<>>]
NaN == [kind |-> "nan", n |-> 0, s |-> <<>>, kids |-> <<>>]
ListV == [kind |-> "list", n |-> 0, s |-> <<>>, kids |-> <<>>]
IntV(k) == [kind |-> "int", n |-> k, s |-> <<>>, kids |-> <<>>]
FloatV(k) == [kind |-> "float", n |-> k, s |-> <<>>, kids |-> <<>>]
StrV(chars) == [kind |-> "str", n |-> 0, s |-> chars, kids |-> <<>>]
DictV(items) == [kind |-> "dict", n |-> 0, s |-> <<>>, kids |-> items]
Item(k, v) == [key |-> k, val |-> v]
EmptyDict == DictV(<<>>)

\* Python dict operations on the item sequence of a dict value.
DictIndex(items, k) ==
    IF \E i \in 1..Len(items) : items[i].key = k
    THEN CHOOSE i \in 1..Len(items) : items[i].key = k
    ELSE 0
DictHas(items, k) == DictIndex(items, k) # 0
DictGet(items, k) == items[DictIndex(items, k)].val
\* d[k] = v : an existing key keeps its position, a new key is appended.
DictSet(items, k, v) ==
    IF DictHas(items, k)
    THEN [items EXCEPT ![DictIndex(items, k)] = Item(k, v)]
    ELSE Append(items, Item(k, v))
DictKeys(items) == [i \in 1..Len(items) |-> items[i].key]

\* str(i) for a natural number.
Digit(d) == <<"0", "1", "2", "3", "4", "5", "6", "7", "8", "9">>[d + 1]
RECURSIVE str(_)
str(i) == IF i < 10 THEN <<Digit(i)>> ELSE str(i \div 10) \o <<Digit(i % 10)>>

\* ------------------------------------------------------------ exceptions

NoException == [type |-> "none", status_code |-> 0, detail |-> "", at |-> <<>>]
\* HTTPException(status_code, detail); `at` is the text interpolated into it.
HTTPException(code, detail, at) ==
    [type |-> "HTTPException", status_code |-> code, detail |-> detail, at |-> at]
\* Any other Python exception, by its class name.
Raise(type) == [type |-> type, status_code |-> 0, detail |-> "", at |-> <<>>]
Raised(e) == e.type # "none"

ArraysMsg == "Arrays are not supported. Found array at '{path}'."
ItemMsg == "Item at index {i} must be an object"
EmptyDataMsg == "Data cannot be empty"
EmptySqlMsg == "SQL query cannot be empty"
SqlErrorMsg == "SQL execution error: {e}"
InternalMsg == "Internal server error: {e}"
SchemaErrorMsg == "Schema generation error: {e}"

\* ------------------------------------------------------------- validator

new_path_undotted(path, key) == path \o key
\* f"{path}.{key}" if path != "root" else key
new_path(path, key) ==
    IF path # <<"r", "o", "o", "t">> THEN path \o <<".">> \o key ELSE key

RECURSIVE validate_no_arrays(_, _)
RECURSIVE validate_items(_, _, _)
\* The loop `for key, value in obj.items()` from its i-th item on: the first
\* exception raised by an item ends the loop.
validate_items(items, path, i) ==
    IF i > Len(items) THEN NoException
    ELSE LET e == validate_no_arrays(items[i].val, new_path(path, items[i].key))
         IN  IF Raised(e) THEN e ELSE validate_items(items, path, i + 1)

validate_no_arrays(obj, path) ==
    IF obj.kind = "list" THEN HTTPException(400, ArraysMsg, path)
    ELSE IF obj.kind = "dict" THEN validate_items(obj.kids, path, 1)
    ELSE NoException

RECURSIVE validate_from(_, _)
\* The loop `for i, item in enumerate(data)` from its i-th pass on (i from 0).
validate_from(data, i) ==
    IF i >= Len(data) THEN NoException
    ELSE IF data[i + 1].kind # "dict" THEN HTTPException(400, ItemMsg, str(i))
    ELSE LET e == validate_no_arrays(data[i + 1],
                      <<"d", "a", "t", "a", "[">> \o str(i) \o <<"]">>)
         IN  IF Raised(e) THEN e ELSE validate_from(data, i + 1)

\* request.data is always a list (pydantic: List[Dict[str, Any]]), so the
\* isinstance(data, list) test never fails.
validate_data_structure(data) == validate_from(data, 0)

\* ------------------------------------------------- pandas.json_normalize

RECURSIVE normalise_json(_, _, _)
RECURSIVE normalise_items(_, _, _, _)
\* The loop `for key, value in data.items()` of pandas' _normalise_json.
normalise_items(items, key_string, normalized_dict, i) ==
    IF i > Len(items) THEN normalized_dict
    ELSE LET joined == key_string \o <<".">> \o items[i].key
             new_key == IF key_string = <<>> THEN Tail(joined) ELSE joined
         IN  normalise_items(items, key_string,
                 normalise_json(items[i].val, new_key, normalized_dict), i + 1)

\* pandas' _normalise_json: a dict is descended into, anything else is a
\* leaf stored under the dotted key; an empty dict stores nothing.
normalise_json(obj, key_string, normalized_dict) ==
    IF obj.kind = "dict"
    THEN normalise_items(obj.kids, key_string, normalized_dict, 1)
    ELSE DictSet(normalized_dict, key_string, obj)

RECURSIVE DictUpdate(_, _, _)
\* {**a, **b}
DictUpdate(a, b, i) ==
    IF i > Len(b) THEN a
    ELSE DictUpdate(DictSet(a, b[i].key, b[i].val), b, i + 1)

\* pandas' _normalise_json_ordered: the top-level leaves first, in record
\* order, then the leaves of the nested dicts.
normalise_json_ordered(rec) ==
    LET top_dict == SelectSeq(rec.kids, LAMBDA it : it.val.kind # "dict")
        nested == SelectSeq(rec.kids, LAMBDA it : it.val.kind = "dict")
        nested_dict == normalise_json(DictV(nested), <<>>, <<>>)
    IN  DictUpdate(top_dict, nested_dict, 1)

RECURSIVE UniqueKeys(_, _, _)
\* The column index of DataFrame(list of dicts): the keys of the rows in
\* order of first appearance.
UniqueKeys(rows, r, acc) ==
    IF r > Len(rows) THEN acc
    ELSE LET ks == DictKeys(rows[r])
             fresh == SelectSeq(ks, LAMBDA k : \A j \in 1..Len(acc) : acc[j] # k)
         IN  UniqueKeys(rows, r + 1, acc \o fresh)

\* pandas' lib.maybe_convert_objects on one column (None, NaN, int, float and
\* str cells): the dtype inferred and the cells converted to it.
maybe_convert_objects(cells) ==
    LET has(kind) == \E i \in 1..Len(cells) : cells[i].kind = kind
    IN  IF has("str") THEN [dtype |-> "object", cells |-> cells]
        ELSE IF has("float") \/ has("nan")
                \/ (has("int") /\ has("None"))
        THEN [dtype |-> "float64",
              cells |-> [i \in 1..Len(cells) |->
                          IF cells[i].kind \in {"None", "nan"} THEN NaN
                          ELSE FloatV(cells[i].n)]]
        ELSE IF has("int") THEN [dtype |-> "int64", cells |-> cells]
        ELSE [dtype |-> "object", cells |-> cells]

\* A DataFrame: its column labels, and per column the dtype and the cells.
Frame(columns, cols) ==
    [columns |-> columns,
     dtypes |-> [c \in 1..Len(cols) |-> cols[c].dtype],
     cells |-> [c \in 1..Len(cols) |-> cols[c].cells],
     nrows |-> IF Len(cols) = 0 THEN 0 ELSE Len(cols[1].cells)]

\* pd.json_normalize(data) for a list of dicts and no other argument: every
\* record is flattened on its own, a key absent from a row is NaN.
json_normalize(batch) ==
    LET rows == [r \in 1..Len(batch) |-> normalise_json_ordered(batch[r])]
        columns == UniqueKeys(rows, 1, <<>>)
        column(c) == maybe_convert_objects(
            [r \in 1..Len(rows) |->
                IF DictHas(rows[r], columns[c]) THEN DictGet(rows[r], columns[c])
                ELSE NaN])
    IN  [Frame(columns, [c \in 1..Len(columns) |-> column(c)])
            EXCEPT !.nrows = Len(batch)]

\* ------------------------------------------------------- name sanitizer

RECURSIVE replace(_, _, _)
\* str.replace(old, new) for a one-character old and a new of any length.
replace(chars, old, new) ==
    IF chars = <<>> THEN <<>>
    ELSE (IF Head(chars) = old THEN new ELSE <<Head(chars)>>)
         \o replace(Tail(chars), old, new)

sanitize_keep_dots(col) == replace(replace(col, "[", <<>>), "]", <<>>)
\* col.replace(".", "_").replace("[", "").replace("]", "")
sanitize(col) ==
    replace(replace(replace(col, ".", <<"_">>), "[", <<>>), "]", <<>>)

sanitize_columns(columns) == [c \in 1..Len(columns) |-> sanitize(columns[c])]

RECURSIVE dict_zip(_, _, _, _)
\* dict(zip(ks, vs)): a repeated key keeps its first position and takes the
\* last value.
dict_zip(ks, vs, i, acc) ==
    IF i > Len(ks) \/ i > Len(vs) THEN acc
    ELSE dict_zip(ks, vs, i + 1, DictSet(acc, ks[i], StrV(vs[i])))

\* ------------------------------------- Query Executor (pandas over SQLite)

SelectAll == "SELECT * FROM data"
SelectCount == "SELECT COUNT(*) as total FROM data"
SelectAllPlus == "SELECT *, 1 AS total FROM data"
SelectAllPlusA == "SELECT *, 1 AS a FROM data"
SelectAFirst == "SELECT 1 AS a, * FROM data"
Malformed == "SELEC * FROM data"
Total == <<"t", "o", "t", "a", "l">>

\* sql.strip(): the query strings of the model carry no outer blanks, the
\* blank ones strip to the empty string.
strip(q) == IF q \in {"", "   "} THEN "" ELSE q

\* What SQLite stores for a cell bound to a column of the declared type: NaN
\* and None are bound as NULL, a number bound to a TEXT column is stored as
\* its text: the int 1 as '1', the float 1.0 as '1.0' (the floats of the
\* model are whole numbers).
Stored(cell, sqltype) ==
    IF cell.kind \in {"None", "nan"} THEN NoneV
    ELSE IF sqltype = "TEXT" /\ cell.kind = "int" THEN StrV(str(cell.n))
    ELSE IF sqltype = "TEXT" /\ cell.kind = "float"
         THEN StrV(str(cell.n) \o <<".", "0">>)
    ELSE cell

\* df.to_sql("data", conn, index=False, if_exists="replace"): the CREATE
\* TABLE statement is run on the bare cursor, so a table with no column or
\* with two columns of one name raises sqlite3.OperationalError.
to_sql(df) ==
    LET n == Len(df.columns)
        sqltype(c) == CASE df.dtypes[c] = "int64" -> "INTEGER"
                        [] df.dtypes[c] = "float64" -> "REAL"
                        [] OTHER -> "TEXT"
    IN  IF n = 0 \/ \E i, j \in 1..n : i < j /\ df.columns[i] = df.columns[j]
        THEN [exc |-> Raise("sqlite3.OperationalError"), columns |-> <<>>,
              cells |-> <<>>, nrows |-> 0]
        ELSE [exc |-> NoException, columns |-> df.columns,
              cells |-> [c \in 1..n |->
                  [r \in 1..df.nrows |-> Stored(df.cells[c][r], sqltype(c))]],
              nrows |-> df.nrows]

\* pd.read_sql_query(sql, conn) for the queries of the model; the rows SQLite
\* returns are made a DataFrame by DataFrame.from_records(coerce_float=True).
read_sql_query(q, table) ==
    LET n == Len(table.columns)
        all == [c \in 1..n |-> maybe_convert_objects(table.cells[c])]
        ones == [dtype |-> "int64", cells |-> [r \in 1..table.nrows |-> IntV(1)]]
    IN  CASE q = SelectAll ->
               [exc |-> NoException, df |-> Frame(table.columns, all)]
          [] q = SelectAllPlus ->
               [exc |-> NoException,
                df |-> Frame(Append(table.columns, Total), Append(all, ones))]
          [] q = SelectAllPlusA ->
               [exc |-> NoException,
                df |-> Frame(Append(table.columns, <<"a">>), Append(all, ones))]
          [] q = SelectAFirst ->
               [exc |-> NoException,
                df |-> Frame(<<<<"a">>>> \o table.columns, <<ones>> \o all)]
          [] q = SelectCount ->
               [exc |-> NoException,
                df |-> Frame(<<Total>>,
                    <<[dtype |-> "int64", cells |-> <<IntV(table.nrows)>>]>>)]
          [] OTHER ->
               [exc |-> Raise("pd.errors.DatabaseError"), df |-> Frame(<<>>, <<>>)]

RECURSIVE row_dict(_, _, _, _)
\* dict(zip(columns, row)): of two result columns of one name the first
\* gives the position and the last the value.
row_dict(df, r, c, acc) ==
    IF c > Len(df.columns) THEN acc
    ELSE row_dict(df, r, c + 1, DictSet(acc, df.columns[c], df.cells[c][r]))

\* result.to_dict(orient="records")
to_dict(df) == [r \in 1..df.nrows |-> row_dict(df, r, 1, <<>>)]

\* ------------------------------------------------------------ unflattener

RECURSIVE split(_, _)
\* str.split(sep) for a one-character separator.
split(chars, sep) ==
    IF \A i \in 1..Len(chars) : chars[i] # sep THEN <<chars>>
    ELSE LET i == CHOOSE k \in 1..Len(chars) :
                      chars[k] = sep /\ \A j \in 1..(k - 1) : chars[j] # sep
         IN  <<SubSeq(chars, 1, i - 1)>> \o
             split(SubSeq(chars, i + 1, Len(chars)), sep)

RECURSIVE set_path(_, _, _)
\* Lines 55-62 on the object `current`: walk or create parts[:-1], then
\* assign the value at parts[-1].  `ok` is FALSE when Python raises TypeError:
\* `part not in current`, `current[part]` or `current[part] = ...` on a value
\* that is no dict.
set_path(current, parts, value) ==
    IF current.kind # "dict" THEN [ok |-> FALSE, obj |-> current]
    ELSE IF Len(parts) = 1
    THEN [ok |-> TRUE, obj |-> DictV(DictSet(current.kids, parts[1], value))]
    ELSE LET part == Head(parts)
             made == IF DictHas(current.kids, part) THEN current.kids
                     ELSE DictSet(current.kids, part, EmptyDict)
             below == set_path(DictGet(made, part), Tail(parts), value)
         IN  [ok |-> below.ok, obj |-> DictV(DictSet(made, part, below.obj))]

\* column_mapping.get(flattened_key, flattened_key)
original_key(column_mapping, flattened_key) ==
    IF DictHas(column_mapping, flattened_key)
    THEN DictGet(column_mapping, flattened_key).s
    ELSE flattened_key

RECURSIVE unflatten_row(_, _, _, _)
\* The loop `for flattened_key, value in row.items()` from its i-th item on.
unflatten_row(row, column_mapping, i, nested_row) ==
    IF i > Len(row) THEN [ok |-> TRUE, obj |-> nested_row]
    ELSE LET flattened_key == row[i].key
             parts == split(original_key(column_mapping, flattened_key), ".")
             done == set_path(nested_row, parts, row[i].val)
         IN  IF done.ok THEN unflatten_row(row, column_mapping, i + 1, done.obj)
             ELSE done

\* unflatten_data(flattened_rows, column_mapping): the nested rows, or the
\* TypeError of the first row that raises.
unflatten_data(flattened_rows, column_mapping) ==
    LET out == [r \in 1..Len(flattened_rows) |->
                   unflatten_row(flattened_rows[r], column_mapping, 1, EmptyDict)]
    IN  IF \A r \in 1..Len(out) : out[r].ok
        THEN [exc |-> NoException, rows |-> [r \in 1..Len(out) |-> out[r].obj.kids]]
        ELSE [exc |-> Raise("TypeError"), rows |-> <<>>]

\* --------------------------------------------------------------- handlers

\* What a handler leaves behind: the HTTP status and detail, the class of the
\* exception that ended it ("none" on success), the value returned (rows for
\* /query; columns and column_mapping for /get-schema), the locals
\* original_columns and column_mapping as far as they were computed, and the
\* calls made, in order.
Reply(code, detail, at, exc, rows, columns, original_columns, column_mapping, trace) ==
    [status_code |-> code, detail |-> detail, at |-> at, exc |-> exc,
     rows |-> rows, columns |-> columns, original_columns |-> original_columns,
     column_mapping |-> column_mapping, trace |-> trace]

never_falsy(batch) == FALSE
\* `not request.data`
falsy(batch) == Len(batch) = 0

\* The except clauses of query_json (lines 220-228).
query_except(e) ==
    IF e.type = "HTTPException" THEN [status_code |-> e.status_code, detail |-> e.detail, at |-> e.at]
    ELSE IF e.type = "pd.errors.DatabaseError"
    THEN [status_code |-> 400, detail |-> SqlErrorMsg, at |-> <<>>]
    ELSE [status_code |-> 500, detail |-> InternalMsg, at |-> <<>>]

\* The except clauses of get_flattened_table_columns (lines 165-172).
schema_except(e) ==
    IF e.type = "HTTPException" THEN [status_code |-> e.status_code, detail |-> e.detail, at |-> e.at]
    ELSE [status_code |-> 500, detail |-> SchemaErrorMsg, at |-> <<>>]

restore_shape_always(result_data, column_mapping, flatten) ==
    unflatten_data(result_data, column_mapping)
\* Lines 213-215: the rows returned.
restore_shape(result_data, column_mapping, flatten) ==
    IF ~flatten THEN unflatten_data(result_data, column_mapping)
    ELSE [exc |-> NoException, rows |-> result_data]

\* POST /get-schema
get_flattened_table_columns(batch) ==
    LET fail(e, trace) ==
            LET h == schema_except(e)
            IN  Reply(h.status_code, h.detail, h.at, e.type, <<>>, <<>>, <<>>, <<>>, trace)
        v == validate_data_structure(batch)
        df == json_normalize(batch)
        original_columns == df.columns
        cleaned_columns == sanitize_columns(df.columns)
        column_mapping == dict_zip(original_columns, cleaned_columns, 1, <<>>)
    IN  IF falsy(batch) THEN fail(HTTPException(400, EmptyDataMsg, <<>>), <<>>)
        ELSE IF Raised(v) THEN fail(v, <<"validate_data_structure">>)
        ELSE Reply(200, "", <<>>, "none", <<>>, cleaned_columns, original_columns,
                   column_mapping, <<"validate_data_structure", "json_normalize">>)

\* POST /query
query_json(batch, q, flatten) ==
    LET fail(e, original_columns, column_mapping, trace) ==
            LET h == query_except(e)
            IN  Reply(h.status_code, h.detail, h.at, e.type, <<>>, <<>>,
                      original_columns, column_mapping, trace)
        v == validate_data_structure(batch)
        df == json_normalize(batch)
        original_columns == df.columns
        cleaned == [df EXCEPT !.columns = sanitize_columns(df.columns)]
        column_mapping == dict_zip(cleaned.columns, original_columns, 1, <<>>)
        table == to_sql(cleaned)
        result == read_sql_query(q, table)
        result_data == to_dict(result.df)
        shaped == restore_shape(result_data, column_mapping, flatten)
        t1 == <<"validate_data_structure">>
        t2 == t1 \o <<"json_normalize", "to_sql">>
        t3 == t2 \o <<"read_sql_query">>
        t4 == IF flatten THEN t3 ELSE t3 \o <<"unflatten_data">>
    IN  IF falsy(batch) THEN fail(HTTPException(400, EmptyDataMsg, <<>>), <<>>, <<>>, <<>>)
        ELSE IF strip(q) = "" THEN fail(HTTPException(400, EmptySqlMsg, <<>>), <<>>, <<>>, <<>>)
        ELSE IF Raised(v) THEN fail(v, <<>>, <<>>, t1)
        ELSE IF Raised(table.exc) THEN fail(table.exc, original_columns, column_mapping, t2)
        ELSE IF Raised(result.exc) THEN fail(result.exc, original_columns, column_mapping, t3)
        ELSE IF Raised(shaped.exc) THEN fail(shaped.exc, original_columns, column_mapping, t4)
        ELSE Reply(200, "", <<>>, "none", shaped.rows, result.df.columns,
                   original_columns, column_mapping, t4)

\* ------------------------------------------------------------ the requests

A == <<"a">>
B == <<"b">>
AB == <<"a", "_", "b">>
BrA == <<"[", "a", "]">>
X == <<"x">>

\* The leaves of a request body, and the values one level above them.
Leaves == {NoneV, IntV(1), StrV(X), ListV}
Inner == {EmptyDict} \cup {DictV(<<Item(B, v)>>) : v \in Leaves}
\* The records of a request: no key, the key "a" alone, or "a" next to a
\* second top-level key, in either order.
Deeper == {DictV(<<Item(B, DictV(<<Item(B, v)>>))>>) : v \in {IntV(1), ListV}}
Second == {Item(AB, IntV(1)), Item(BrA, IntV(1)), Item(B, StrV(X)), Item(B, ListV)}
Records ==
    {EmptyDict}
    \cup {DictV(<<Item(A, v)>>) : v \in Leaves \cup Inner \cup Deeper}
    \cup {DictV(<<Item(A, v), s>>) : v \in {IntV(1), DictV(<<Item(B, IntV(1))>>), ListV}, s \in Second}
    \cup {DictV(<<s, Item(A, v)>>) : v \in {DictV(<<Item(B, IntV(1))>>), ListV}, s \in Second}

MaxRecords == 2
RECURSIVE SeqsUpTo(_, _)
SeqsUpTo(S, n) ==
    IF n = 0 THEN {<<>>}
    ELSE LET shorter == SeqsUpTo(S, n - 1)
         IN  shorter \cup {Append(b, r) : b \in {x \in shorter : Len(x) = n - 1}, r \in S}
Batches == SeqsUpTo(Records, MaxRecords)
Sqls == {"", "   ", SelectAll, SelectCount, SelectAllPlus, SelectAllPlusA,
         SelectAFirst, Malformed}

VARIABLES data, endpoint, sql, flatten_columns, response, pc
vars == <<data, endpoint, sql, flatten_columns, response, pc>>

NoReply == Reply(0, "", <<>>, "none", <<>>, <<>>, <<>>, <<>>, <<>>)

Init ==
    /\ data \in Batches
    /\ endpoint = "none"
    /\ sql = ""
    /\ flatten_columns = FALSE
    /\ response = NoReply
    /\ pc = "request"

PostGetSchema ==
    /\ pc = "request"
    /\ endpoint' = "/get-schema"
    /\ response' = get_flattened_table_columns(data)
    /\ pc' = "done"
    /\ UNCHANGED <<data, sql, flatten_columns>>

PostQuery ==
    /\ pc = "request"
    /\ \E q \in Sqls, f \in BOOLEAN :
          /\ sql' = q
          /\ flatten_columns' = f
          /\ response' = query_json(data, q, f)
    /\ endpoint' = "/query"
    /\ pc' = "done"
    /\ UNCHANGED data

Next == PostGetSchema \/ PostQuery
Spec == Init /\ [][Next]_vars

\* ------------------------------------------------ notions the claims use

Done == pc = "done"
Queried == Done /\ endpoint = "/query"
Described == Done /\ endpoint = "/get-schema"
Has(trace, call) == \E i \in 1..Len(trace) : trace[i] = call

RECURSIVE ListPositions(_)
\* Where the lists of a value are: each as the item indices leading to it.
ListPositions(obj) ==
    IF obj.kind = "list" THEN {<<>>}
    ELSE IF obj.kind = "dict"
    THEN UNION {{<<i>> \o p : p \in ListPositions(obj.kids[i].val)} :
                   i \in 1..Len(obj.kids)}
    ELSE {}
BatchListPositions(batch) ==
    UNION {{<<r>> \o p : p \in ListPositions(batch[r])} : r \in 1..Len(batch)}
\* p is met before q when the batch is walked record by record, key by key.
Before(p, q) ==
    \E k \in 1..Len(p) :
        /\ k <= Len(q)
        /\ p[k] < q[k]
        /\ \A j \in 1..(k - 1) : p[j] = q[j]
FirstListPosition(batch) ==
    CHOOSE p \in BatchListPositions(batch) :
        \A q \in BatchListPositions(batch) \ {p} : Before(p, q)
RECURSIVE KeysAlong(_, _)
KeysAlong(obj, idxs) ==
    IF idxs = <<>> THEN <<>>
    ELSE <<".">> \o obj.kids[Head(idxs)].key
         \o KeysAlong(obj.kids[Head(idxs)].val, Tail(idxs))
\* 'data[i]' followed by the dot-joined keys.
PathText(batch, pos) ==
    <<"d", "a", "t", "a", "[">> \o str(pos[1] - 1) \o <<"]">>
    \o KeysAlong(batch[pos[1]], Tail(pos))
Valid(batch) == batch # <<>> /\ BatchListPositions(batch) = {}

RECURSIVE LeafPaths(_, _)
\* The primitive leaves of a record: the keys leading to each and its value.
LeafPaths(obj, prefix) ==
    IF obj.kind = "dict"
    THEN UNION {LeafPaths(obj.kids[i].val, Append(prefix, obj.kids[i].key)) :
                   i \in 1..Len(obj.kids)}
    ELSE {[path |-> prefix, val |-> obj]}
PathsOf(rec) == {l.path : l \in LeafPaths(rec, <<>>)}
RECURSIVE Dotted(_)
Dotted(path) ==
    IF Len(path) = 1 THEN path[1] ELSE path[1] \o <<".">> \o Dotted(Tail(path))
Absent == [kind |-> "absent", n |-> 0, s |-> <<>>, kids |-> <<>>]
RECURSIVE Lookup(_, _)
\* The value at a nesting position, Absent when the position does not exist.
Lookup(obj, path) ==
    IF path = <<>> THEN obj
    ELSE IF obj.kind = "dict" /\ DictHas(obj.kids, Head(path))
    THEN Lookup(DictGet(obj.kids, Head(path)), Tail(path))
    ELSE Absent
\* Python's ==: 1 == 1.0.
SameValue(u, v) ==
    \/ u = v
    \/ u.kind \in {"int", "float"} /\ v.kind \in {"int", "float"} /\ u.n = v.n
\* A path with every "." made "_" and every bracket dropped.
Cleaned(chars) ==
    LET kept == SelectSeq(chars, LAMBDA c : c \notin {"[", "]"})
    IN  [i \in 1..Len(kept) |-> IF kept[i] = "." THEN "_" ELSE kept[i]]
SeqSet(seq) == {seq[i] : i \in 1..Len(seq)}

\* ------------------------------------------------------------------ claims

\* C1: for every non-empty batch without lists, SELECT * FROM data with
\* flatten_columns=false returns the records again: one row per record, and
\* every leaf path of a record is in its row at the same nesting position
\* with the same value.
RoundTripLaw ==
    (Queried /\ sql = SelectAll /\ ~flatten_columns /\ Valid(data)) =>
        /\ response.status_code = 200
        /\ Len(response.rows) = Len(data)
        /\ \A r \in 1..Len(data) : \A l \in LeafPaths(data[r], <<>>) :
               SameValue(Lookup(DictV(response.rows[r]), l.path), l.val)

\* C2: a batch that reaches the validator is refused with status 400 exactly
\* when some value at some depth is a list, and the path reported is
\* 'data[i]' plus the dot-joined keys of the first list in walk order.
ValidatorRejectsFirstArray ==
    (Done /\ data # <<>> /\ (endpoint = "/get-schema" \/ strip(sql) # "")) =>
        IF BatchListPositions(data) = {} THEN response.detail # ArraysMsg
        ELSE /\ response.status_code = 400
             /\ response.exc = "HTTPException"
             /\ response.detail = ArraysMsg
             /\ response.at = PathText(data, FirstListPosition(data))
\* A batch with lists in both records, the first of them nested.
SeveralArraysSeen ==
    /\ Described
    /\ Len(data) = 2
    /\ ListPositions(data[1]) # {} /\ ListPositions(data[2]) # {}
    /\ response.at = <<"d", "a", "t", "a", "[", "0", "]", ".", "a", ".", "b">>

\* C3 as stated: /get-schema returns the sanitized identifiers in order, and
\* a column_mapping whose keys are the identifiers and whose values are the
\* original dotted paths.
SchemaMapsIdentifierToPath ==
    (Described /\ Valid(data)) =>
        /\ response.status_code = 200
        /\ \A i \in 1..Len(response.columns) :
               /\ DictHas(response.column_mapping, response.columns[i])
               /\ DictGet(response.column_mapping, response.columns[i])
                      = StrV(response.original_columns[i])
\* C3 as amended: /get-schema returns the sanitized identifiers in order, and
\* a column_mapping with one entry per column whose key is the original
\* dotted path and whose value is the identifier.
SchemaMapsPathToIdentifier ==
    (Described /\ Valid(data)) =>
        /\ response.status_code = 200
        /\ SeqSet(response.original_columns)
               = {Dotted(p) : p \in UNION {PathsOf(data[r]) : r \in 1..Len(data)}}
        /\ Len(response.columns) = Len(response.original_columns)
        /\ Len(response.column_mapping) = Len(response.columns)
        /\ \A i \in 1..Len(response.columns) :
               /\ response.columns[i] = Cleaned(response.original_columns[i])
               /\ response.column_mapping[i].key = response.original_columns[i]
               /\ response.column_mapping[i].val = StrV(response.columns[i])
\* The schema of a batch with a nested path and a second column.
NestedSchemaDescribed ==
    /\ Described
    /\ response.status_code = 200
    /\ response.columns = <<B, AB>>
    /\ response.original_columns = <<B, <<"a", ".", "b">>>>

\* C4: for a batch whose records have different key sets, SELECT * FROM data
\* with flatten_columns=false returns one row per record, each holding every
\* path of the union: the record's own value, or null where it has none.
SparseRowsHoldNulls ==
    LET union == UNION {PathsOf(data[r]) : r \in 1..Len(data)}
    IN  (/\ Queried /\ sql = SelectAll /\ ~flatten_columns /\ Valid(data)
         /\ \E r \in 1..Len(data) : PathsOf(data[r]) # union) =>
            /\ response.status_code = 200
            /\ Len(response.rows) = Len(data)
            /\ \A r \in 1..Len(data) : \A p \in union :
                   IF p \in PathsOf(data[r])
                   THEN SameValue(Lookup(DictV(response.rows[r]), p),
                                  Lookup(data[r], p))
                   ELSE Lookup(DictV(response.rows[r]), p) = NoneV

\* The rows the Query Executor produced for the request, and the mapping
\* from identifier to path built for it.
ExecutorRows ==
    LET df == json_normalize(data)
    IN  to_dict(read_sql_query(sql,
            to_sql([df EXCEPT !.columns = sanitize_columns(df.columns)])).df)
InverseMapping ==
    LET df == json_normalize(data)
    IN  dict_zip(sanitize_columns(df.columns), df.columns, 1, <<>>)

\* C5: once the Query Executor has produced rows, flatten_columns=true
\* returns exactly those rows, and flatten_columns=false returns what
\* unflatten_data makes of those rows with the request's inverse mapping
\* (its exception, if it raises, is the request's failure).
FlattenFlagSelectsShape ==
    (Queried /\ Has(response.trace, "read_sql_query")
             /\ response.exc # "pd.errors.DatabaseError") =>
        /\ response.column_mapping = InverseMapping
        /\ IF flatten_columns
           THEN /\ response.status_code = 200
                /\ response.rows = ExecutorRows
                /\ sql = SelectAll => \A r \in 1..Len(response.rows) :
                       DictKeys(response.rows[r])
                           = [i \in 1..Len(response.original_columns) |->
                                 Cleaned(response.original_columns[i])]
           ELSE LET u == unflatten_data(ExecutorRows, InverseMapping)
                IN  IF Raised(u.exc)
                    THEN response.status_code = 500 /\ response.exc = u.exc.type
                    ELSE response.status_code = 200 /\ response.rows = u.rows
\* Flat rows returned as they are although a column comes from a nested path.
FlatRowsReturned ==
    /\ Queried /\ flatten_columns /\ sql = SelectAll
    /\ response.status_code = 200
    /\ Len(response.rows) = 2
    /\ \E i \in 1..Len(response.original_columns) :
           response.original_columns[i] = <<"a", ".", "b">>
    /\ DictHas(response.rows[1], AB)

\* A row without one of its keys.
Without(items, k) == SelectSeq(items, LAMBDA it : it.key # k)
\* The column a query of the model synthesizes.
Alias(q) == IF q \in {SelectCount, SelectAllPlus} THEN Total ELSE <<"a">>
Synthesizing == {SelectCount, SelectAllPlus, SelectAllPlusA, SelectAFirst}
\* The request synthesized a column that has no entry in the inverse mapping
\* (and no dot in its name), and the Query Executor returned rows.
FallbackTaken ==
    /\ Queried /\ ~flatten_columns /\ sql \in Synthesizing
    /\ Has(response.trace, "read_sql_query")
    /\ response.exc # "pd.errors.DatabaseError"
    /\ ~DictHas(InverseMapping, Alias(sql))
\* What unflatten_data makes of the executor's rows without the column.
PlainRows ==
    unflatten_data([r \in 1..Len(ExecutorRows) |->
                       Without(ExecutorRows[r], Alias(sql))], InverseMapping)

\* C6: a result column with no entry in the inverse mapping and no
\* dot in its name becomes a top-level key of the row with its value
\* unchanged, and no other key of the row is created or altered: every leaf
\* the row has without that column is still there.
SynthesizedColumnAltersNothingElse ==
    (FallbackTaken /\ response.status_code = 200) =>
        \A r \in 1..Len(response.rows) :
            /\ DictHas(response.rows[r], Alias(sql))
            /\ DictGet(response.rows[r], Alias(sql))
                   = DictGet(ExecutorRows[r], Alias(sql))
            /\ ~Raised(PlainRows.exc)
            /\ \A l \in LeafPaths(DictV(PlainRows.rows[r]), <<>>) :
                   Lookup(DictV(response.rows[r]), l.path) = l.val

\* C7: both handlers refuse an empty batch with 400 'Data cannot be empty',
\* whatever the sql and the flag, before any other call is made.
EmptyBatchRejected ==
    (Done /\ data = <<>>) =>
        /\ response.status_code = 400
        /\ response.detail = EmptyDataMsg
        /\ response.exc = "HTTPException"
        /\ response.trace = <<>>
\* An empty batch sent to /query together with a blank sql.
EmptyBatchAndBlankSql ==
    /\ Queried /\ data = <<>> /\ strip(sql) = ""
    /\ response.detail = EmptyDataMsg

\* The details of the handlers' own validation errors.
ValidationDetails == {EmptyDataMsg, EmptySqlMsg, ArraysMsg, ItemMsg}
\* C8: a failed /query ends in one error kind: a validation error is passed
\* on unchanged (400 with its own detail), an error raised by the Query
\* Executor is a 400 'SQL execution error', anything else is a 500.
ErrorsClassified ==
    (Queried /\ response.status_code # 200) =>
        CASE response.exc = "HTTPException" ->
               response.status_code = 400 /\ response.detail \in ValidationDetails
          [] response.exc \in {"pd.errors.DatabaseError", "sqlite3.OperationalError"} ->
               response.status_code = 400 /\ response.detail = SqlErrorMsg
          [] OTHER ->
               response.status_code = 500 /\ response.detail = InternalMsg

\* C9: for every batch the validator accepts, unflatten_data on the rows of
\* SELECT * FROM data completes without raising.
UnflattenNeverRaises ==
    (Queried /\ sql = SelectAll /\ ~flatten_columns /\ Valid(data)
             /\ Has(response.trace, "unflatten_data")) =>
        response.status_code = 200

\* C10: for every batch the validator accepts, identifiers and paths are one
\* to one: the mapping of query_json has one entry per distinct path and
\* every path is the value of its own identifier.
MappingOneToOne ==
    (Queried /\ Has(response.trace, "json_normalize")) =>
        /\ Len(response.column_mapping) = Len(response.original_columns)
        /\ \A i \in 1..Len(response.original_columns) :
               DictGet(response.column_mapping,
                       Cleaned(response.original_columns[i]))
                   = StrV(response.original_columns[i])
====
